---- MODULE Spec2Model ----
(***************************************************************************)
(* Model of jest-github-action (src/action.ts): the run() pipeline, the    *)
(* comment reconciliation against the pull request's comments, and the     *)
(* pure builders getCoverageTable, getCheckPayload and getAnnotations.     *)
(*                                                                         *)
(* Strings are sequences of tokens: a literal fragment of the source is    *)
(* one token, a formatted number is its decimal digits, one token each.    *)
(***************************************************************************)
EXTENDS Integers, Sequences, FiniteSets, TLC

(***************************************************************************)
(* Bounds of the model.                                                    *)
(***************************************************************************)
MaxCount == 2
MaxAssertions == 2
MaxEntries == 2
MaxInitComments == 100
MaxSpecial == 2

(***************************************************************************)
(* Program constants.                                                      *)
(***************************************************************************)
COVERAGE_HEADER == <<":loop: **Code coverage**", "\n", "\n">>
PER_PAGE == 100
BOT_LOGIN == "github-actions[bot]"
CWD == <<"/repo", "/">>

(***************************************************************************)
(* String helpers, as the JavaScript built-ins the source uses.            *)
(***************************************************************************)
DigitChars == <<"0", "1", "2", "3", "4", "5", "6", "7", "8", "9">>

RECURSIVE NumToStr(_)
NumToStr(n) ==
  IF n < 10 THEN <<DigitChars[n + 1]>>
  ELSE NumToStr(n \div 10) \o <<DigitChars[(n % 10) + 1]>>

startsWith(s, p) == Len(s) >= Len(p) /\ SubSeq(s, 1, Len(p)) = p

\* first index at which pat occurs in s, 0 when it does not
indexOf(s, pat) ==
  LET hits == {i \in 1..(Len(s) - Len(pat) + 1) : SubSeq(s, i, i + Len(pat) - 1) = pat}
  IN IF hits = {} THEN 0 ELSE CHOOSE i \in hits : \A j \in hits : i <= j

\* String.prototype.replace with a string pattern: the first occurrence only
replace(s, pat, rep) ==
  LET i == indexOf(s, pat)
  IN IF i = 0 THEN s
     ELSE SubSeq(s, 1, i - 1) \o rep \o SubSeq(s, i + Len(pat), Len(s))

RECURSIVE join(_, _)
join(parts, sep) ==
  IF parts = <<>> THEN <<>>
  ELSE IF Len(parts) = 1 THEN parts[1]
  ELSE parts[1] \o sep \o join(Tail(parts), sep)

AnsiCodes == {"ESC[31m", "ESC[39m"}
Whitespace == {" ", "\n"}

\* strip-ansi: the escape sequences are removed, the rest is kept
strip(s) == SelectSeq(s, LAMBDA t : t \notin AnsiCodes)

RECURSIVE trimRight(_)
trimRight(s) ==
  IF s # <<>> /\ s[Len(s)] \in Whitespace THEN trimRight(SubSeq(s, 1, Len(s) - 1))
  ELSE s

\* FENCE stands for the three backquotes of a Markdown code fence
FENCE == "fence"

asMarkdownCode(str) == <<FENCE, "\n">> \o trimRight(str) \o <<"\n", FENCE>>

RECURSIVE flatten(_)
flatten(seqs) == IF seqs = <<>> THEN <<>> ELSE seqs[1] \o flatten(Tail(seqs))

(***************************************************************************)
(* JavaScript values that are "string | false" or optional are tagged      *)
(* records: [present |-> FALSE] is undefined, StrVal(s) a string,          *)
(* FalseVal the boolean false.                                             *)
(***************************************************************************)
FalseVal == [kind |-> "false", value |-> <<>>]
StrVal(s) == [kind |-> "string", value |-> s]
truthy(v) == v.kind = "string" /\ v.value # <<>>

(***************************************************************************)
(* getCoverageTable                                                        *)
(***************************************************************************)
TableHeaderRow == <<<<"Filename">>, <<"Statements">>, <<"Branches">>, <<"Functions">>, <<"Lines">>>>
TableAlign == <<"l", "r", "r", "r", "r">>

pctCell(pct) == NumToStr(pct) \o <<"%">>

coverageRow(entry, cwd) ==
  << replace(entry.filename, cwd, <<>>),
     pctCell(entry.summary.statements),
     pctCell(entry.summary.branches),
     pctCell(entry.summary.functions),
     pctCell(entry.summary.lines) >>

\* the for loop over Object.entries(covMap.data): entries without toSummary
\* are skipped, the others pushed in iteration order
skipsEntryAlways(entry) == FALSE
skipsEntry(entry) == ~entry.hasSummary

RECURSIVE pushRows(_, _, _)
pushRows(entries, rows, cwd) ==
  IF entries = <<>> THEN rows
  ELSE IF skipsEntry(entries[1]) THEN pushRows(Tail(entries), rows, cwd)
  ELSE pushRows(Tail(entries), Append(rows, coverageRow(entries[1], cwd)), cwd)

\* markdown-table: one line per row, the alignment line after the first row,
\* lines joined by a newline (the padding of the columns is not modelled)
tableLine(cells) == <<"|">> \o flatten([i \in 1..Len(cells) |-> <<" ">> \o cells[i] \o <<" ", "|">>])
alignCell(a) == IF a = "l" THEN <<":-">> ELSE <<"-:">>
alignLine(align) == tableLine([i \in 1..Len(align) |-> alignCell(align[i])])

table(rows, align) ==
  join(<<tableLine(rows[1]), alignLine(align)>>
         \o [i \in 1..(Len(rows) - 1) |-> tableLine(rows[i + 1])],
       <<"\n">>)

getCoverageTable(results, cwd) ==
  IF ~results.coverageMap.present THEN StrVal(<<>>)
  ELSE IF Len(results.coverageMap.entries) = 0 THEN FalseVal
  ELSE StrVal(COVERAGE_HEADER
              \o table(pushRows(results.coverageMap.entries, <<TableHeaderRow>>, cwd),
                       TableAlign))

(***************************************************************************)
(* getAnnotations                                                          *)
(***************************************************************************)
lineOrZero(location) == IF location.present THEN location.line ELSE 0

failureText(failureMessages) ==
  IF failureMessages.present THEN join(failureMessages.value, <<"\n", "\n">>) ELSE <<>>

annotationOf(result, assertion, cwd) ==
  [ path |-> replace(result.name, cwd, <<>>),
    start_line |-> lineOrZero(assertion.location),
    end_line |-> lineOrZero(assertion.location),
    annotation_level |-> "failure",
    title |-> join(assertion.ancestorTitles \o <<assertion.title>>, <<" > ">>),
    message |-> strip(failureText(assertion.failureMessages)) ]

isNotPassed(assertion) == assertion.status # "passed"
isFailed(assertion) == assertion.status = "failed"

annotationsOfFile(result, cwd) ==
  LET failed == SelectSeq(result.assertionResults, isFailed)
  IN [i \in 1..Len(failed) |-> annotationOf(result, failed[i], cwd)]

getAnnotations(results, cwd) ==
  IF results.success THEN <<>>
  ELSE flatten([i \in 1..Len(results.testResults) |->
                  annotationsOfFile(results.testResults[i], cwd)])

(***************************************************************************)
(* getOutputText and getCheckPayload                                       *)
(***************************************************************************)
getOutputText(results) ==
  IF results.success THEN [present |-> FALSE, value |-> <<>>]
  ELSE LET stripped == [i \in 1..Len(results.testResults) |-> strip(results.testResults[i].message)]
           entries == SelectSeq(stripped, LAMBDA m : m # <<>>)
       IN [present |-> TRUE, value |-> asMarkdownCode(join(entries, <<"\n">>))]

passedSummary(results) ==
  NumToStr(results.numPassedTests) \o <<" tests passing in ">>
    \o NumToStr(results.numPassedTestSuites) \o <<" suite">>
    \o (IF results.numPassedTestSuites > 1 THEN <<"s">> ELSE <<>>) \o <<".">>

failedSummary(results) ==
  <<"Failed tests: ">> \o NumToStr(results.numFailedTests) \o <<"/">>
    \o NumToStr(results.numTotalTests) \o <<". Failed suites: ">>
    \o NumToStr(results.numFailedTests) \o <<"/">>
    \o NumToStr(results.numTotalTestSuites) \o <<".">>

getCheckPayload(results, cwd) ==
  [ status |-> "completed",
    conclusion |-> IF results.success THEN "success" ELSE "failure",
    output |->
      [ title |-> IF results.success THEN "Jest tests passed" ELSE "Jest tests failed",
        text |-> getOutputText(results),
        summary |-> IF results.success THEN passedSummary(results) ELSE failedSummary(results),
        annotations |-> getAnnotations(results, cwd) ] ]

(***************************************************************************)
(* Result documents                                                        *)
(***************************************************************************)
NoCoverage == [present |-> FALSE, entries |-> <<>>]
CoverageOf(entries) == [present |-> TRUE, entries |-> entries]

BaseResult ==
  [ success |-> TRUE,
    numTotalTests |-> 0, numPassedTests |-> 0, numFailedTests |-> 0,
    numTotalTestSuites |-> 0, numPassedTestSuites |-> 0, numFailedTestSuites |-> 0,
    testResults |-> <<>>,
    coverageMap |-> NoCoverage ]

\* file names: the odd ones lie under the working directory, the even ones do not
FileName(i) ==
  IF i % 2 = 1 THEN CWD \o <<"src/file">> \o NumToStr(i) \o <<".ts">>
  ELSE <<"/elsewhere", "/", "file">> \o NumToStr(i) \o <<".ts">>

SummaryA == [statements |-> 100, branches |-> 50, functions |-> 7, lines |-> 0]
SummaryB == [statements |-> 12, branches |-> 100, functions |-> 100, lines |-> 80]
NoSummary == [statements |-> 0, branches |-> 0, functions |-> 0, lines |-> 0]

EntryVariants ==
  { [hasSummary |-> FALSE, summary |-> NoSummary],
    [hasSummary |-> TRUE, summary |-> SummaryA],
    [hasSummary |-> TRUE, summary |-> SummaryB] }

EntryAt(i, v) == [filename |-> FileName(i), hasSummary |-> v.hasSummary, summary |-> v.summary]

\* the coverage maps with up to n entries, in insertion order, keys distinct
CoverageMaps(n) ==
  { CoverageOf([i \in 1..Len(vs) |-> EntryAt(i, vs[i])]) :
      vs \in UNION {[1..k -> EntryVariants] : k \in 0..n} }
\* the documents a run may read: both outcomes, and the four shapes of coverage
RunCoverage ==
  { NoCoverage,
    CoverageOf(<<>>),
    CoverageOf(<<EntryAt(1, [hasSummary |-> FALSE, summary |-> NoSummary])>>),
    CoverageOf(<<EntryAt(1, [hasSummary |-> TRUE, summary |-> SummaryA])>>) }

RunResults ==
  { [BaseResult EXCEPT !.success = ok, !.coverageMap = cov,
                       !.numTotalTests = 1, !.numTotalTestSuites = 1,
                       !.numPassedTests = IF ok THEN 1 ELSE 0,
                       !.numPassedTestSuites = IF ok THEN 1 ELSE 0,
                       !.numFailedTests = IF ok THEN 0 ELSE 1,
                       !.numFailedTestSuites = IF ok THEN 0 ELSE 1] :
      ok \in BOOLEAN, cov \in RunCoverage }

(***************************************************************************)
(* The pull request's comments on the platform                             *)
(***************************************************************************)
OldCoverageBody == COVERAGE_HEADER \o <<"| Filename | ... |">>
QuotedBody == <<"> ">> \o COVERAGE_HEADER
FillerBody == <<"LGTM">>
HumanLogin == "alice"

\* an old coverage comment, and the two that miss one of its two marks
CommentKinds ==
  { [user |-> BOT_LOGIN, body |-> OldCoverageBody],
    [user |-> BOT_LOGIN, body |-> QuotedBody],
    [user |-> HumanLogin, body |-> OldCoverageBody] }

\* n comments in creation order, ids ascending: plain ones, then the kinds ks
CommentsOf(n, ks) ==
  [ i \in 1..n |->
      IF i <= n - Len(ks) THEN [id |-> i, user |-> HumanLogin, body |-> FillerBody]
      ELSE [id |-> i, user |-> ks[i - (n - Len(ks))].user, body |-> ks[i - (n - Len(ks))].body] ]

Min(a, b) == IF a < b THEN a ELSE b

\* the last Min(n, MaxSpecial) comments are of any kind
InitialComments(lens) ==
  UNION { {CommentsOf(n, ks) : ks \in [1..Min(n, MaxSpecial) -> CommentKinds]} : n \in lens }

ids(cs) == {cs[i].id : i \in 1..Len(cs)}
removeComment(cs, id) == SelectSeq(cs, LAMBDA c : c.id # id)

(***************************************************************************)
(* State                                                                   *)
(***************************************************************************)
VARIABLES
  comments,      \* the pull request's comments, in creation order
  nextId,        \* the id the platform gives the next comment
  runs,          \* per invocation of run(): its position and what it did
  initComments,  \* the comments before any run (history)
  overlapped,    \* some run started while another one was under way (history)
  fnResults,     \* the argument of the pure builders
  fnOut          \* the values the pure builders returned

vars == <<comments, nextId, runs, initComments, overlapped, fnResults, fnOut>>

\* two invocations of run() on the same pull request
Runs == {1, 2}

NoDoc == [present |-> FALSE, doc |-> BaseResult]
NoComment == [kind |-> "unset", value |-> <<>>]

IdleRun ==
  [ pc |-> "idle",
    token |-> FALSE,            \* GITHUB_TOKEN is set and non-empty
    toggle |-> "false",         \* the coverage-comment input
    execFailed |-> FALSE,       \* exec() threw inside execJest
    results |-> NoDoc,          \* parseResults' value
    comment |-> NoComment,      \* getCoverageTable's value
    listed |-> <<>>,            \* the data of listComments
    deleteCalls |-> {},         \* comment ids deleteComment was called with
    pending |-> {},             \* deleteComment calls not yet settled
    calls |-> [exec |-> 0, check |-> 0, list |-> 0, create |-> 0],
    checkPayloads |-> <<>>,     \* the payloads given to checks.create
    error |-> "none",           \* what the catch block caught
    failed |-> FALSE ]          \* core.setFailed was called

active(r) == runs[r].pc \notin {"idle", "done"}

\* core.getInput gives "" for an input that is not set; JSON.parse throws on it
ToggleInputs == {"true", "false", ""}
jsonParses(input) == input \in {"true", "false"}

\* Boolean(JSON.parse(input)), for an input JSON.parse accepts
shouldCommentCoverage(input) == input = "true"

\* the catch block of run(): console.error, core.setFailed(error.message)
caught(run, what) == [run EXCEPT !.pc = "done", !.error = what, !.failed = TRUE]

PureUnchanged == UNCHANGED <<fnResults, fnOut>>
PlatformUnchanged == UNCHANGED <<comments, nextId>>

(***************************************************************************)
(* run(), one action per step between two awaits                           *)
(***************************************************************************)
\* lines 21-32: the token, then getJestCommand, which reads both toggles
Start(r) ==
  /\ runs[r].pc = "idle"
  /\ r > 1 => runs[r - 1].pc # "idle"
  /\ \/ runs' = [runs EXCEPT ![r] = [@ EXCEPT !.pc = "done", !.failed = TRUE]]
     \/ \E toggle \in ToggleInputs, changesOnly \in ToggleInputs :
          /\ ~(jsonParses(toggle) /\ jsonParses(changesOnly))
          /\ runs' = [runs EXCEPT ![r] = caught([@ EXCEPT !.token = TRUE], "config")]
     \/ \E toggle \in ToggleInputs, changesOnly \in ToggleInputs :
          /\ jsonParses(toggle) /\ jsonParses(changesOnly)
          /\ runs' = [runs EXCEPT ![r] = [@ EXCEPT !.token = TRUE, !.toggle = toggle, !.pc = "exec"]]
  /\ overlapped' = (overlapped \/ \E q \in Runs \ {r} : active(q))
  /\ PlatformUnchanged /\ PureUnchanged /\ UNCHANGED initComments

\* execJest swallows what exec throws
execJestRethrows(run) == caught([run EXCEPT !.execFailed = TRUE, !.calls.exec = @ + 1], "exec")
execJestThrows(run) == [run EXCEPT !.pc = "parse", !.execFailed = TRUE, !.calls.exec = @ + 1]

ExecJest(r) ==
  /\ runs[r].pc = "exec"
  /\ \/ runs' = [runs EXCEPT ![r] = [@ EXCEPT !.pc = "parse", !.calls.exec = @ + 1]]
     \/ runs' = [runs EXCEPT ![r] = execJestThrows(@)]
  /\ PlatformUnchanged /\ PureUnchanged /\ UNCHANGED <<initComments, overlapped>>

ParseResults(r) ==
  /\ runs[r].pc = "parse"
  /\ \/ \E doc \in RunResults :
          runs' = [runs EXCEPT ![r] = [@ EXCEPT !.pc = "check", !.results = [present |-> TRUE, doc |-> doc]]]
     \/ runs' = [runs EXCEPT ![r] = caught(@, "parse")]
  /\ PlatformUnchanged /\ PureUnchanged /\ UNCHANGED <<initComments, overlapped>>

ChecksCreate(r) ==
  /\ runs[r].pc = "check"
  /\ LET sent == [runs[r] EXCEPT !.calls.check = @ + 1,
                                 !.checkPayloads = Append(@, getCheckPayload(runs[r].results.doc, CWD))]
     IN \/ runs' = [runs EXCEPT ![r] = [sent EXCEPT !.pc = "coverage"]]
        \/ runs' = [runs EXCEPT ![r] = caught(sent, "checks.create")]
  /\ PlatformUnchanged /\ PureUnchanged /\ UNCHANGED <<initComments, overlapped>>

\* lines 50-53: whether the comment step runs
postsCommentUnlessFalse(toggle, comment) == comment.kind = "string"
postsComment(toggle, comment) == truthy(comment)

CoverageStep(r) ==
  /\ runs[r].pc = "coverage"
  /\ IF shouldCommentCoverage(runs[r].toggle)
     THEN LET comment == getCoverageTable(runs[r].results.doc, CWD)
          IN runs' = [runs EXCEPT ![r] = [@ EXCEPT !.comment = comment,
                        !.pc = IF postsComment(runs[r].toggle, comment) THEN "list" ELSE "final"]]
     ELSE runs' = [runs EXCEPT ![r] = [@ EXCEPT !.pc = "final"]]
  /\ PlatformUnchanged /\ PureUnchanged /\ UNCHANGED <<initComments, overlapped>>

\* issues.listComments with per_page and no page: the first page, oldest first
listCommentsDefaultPage(cs) == SubSeq(cs, 1, Min(Len(cs), 30))
listComments(cs) == SubSeq(cs, 1, Min(Len(cs), PER_PAGE))

\* the filter of deletePreviousComments
ownedByBot(c) == c.user = BOT_LOGIN
ownComment(c) == c.user = BOT_LOGIN /\ startsWith(c.body, COVERAGE_HEADER)

toDelete(data) == {data[i].id : i \in {j \in 1..Len(data) : ownComment(data[j])}}

\* deletePreviousComments up to Promise.all: every deleteComment is dispatched
ListComments(r) ==
  /\ runs[r].pc = "list"
  /\ \/ LET data == listComments(comments)
            dels == toDelete(data)
        IN runs' = [runs EXCEPT ![r] = [@ EXCEPT !.calls.list = @ + 1, !.listed = data,
                      !.deleteCalls = dels, !.pending = dels,
                      !.pc = IF dels = {} THEN "create" ELSE "deleting"]]
     \/ runs' = [runs EXCEPT ![r] = caught([@ EXCEPT !.calls.list = @ + 1], "listComments")]
  /\ PlatformUnchanged /\ PureUnchanged /\ UNCHANGED <<initComments, overlapped>>

\* Promise.all: fulfilled when every call has, rejected as soon as one is
afterDeleteOkFirst(run, id) ==
  [run EXCEPT !.pending = @ \ {id}, !.pc = IF run.pc = "deleting" THEN "create" ELSE @]
afterDeleteOk(run, id) ==
  [run EXCEPT !.pending = @ \ {id},
              !.pc = IF run.pc = "deleting" /\ run.pending = {id} THEN "create" ELSE @]
afterDeleteFailed(run, id) ==
  IF run.pc = "deleting" THEN caught([run EXCEPT !.pending = @ \ {id}], "deleteComment")
  ELSE [run EXCEPT !.pending = @ \ {id}]

\* one dispatched deleteComment settles; the platform answers 404 for a comment
\* that is gone, and any call may fail
DeleteComment(r) ==
  /\ \E id \in runs[r].pending :
       \/ /\ id \in ids(comments)
          /\ comments' = removeComment(comments, id)
          /\ runs' = [runs EXCEPT ![r] = afterDeleteOk(@, id)]
       \/ /\ comments' = comments
          /\ runs' = [runs EXCEPT ![r] = afterDeleteFailed(@, id)]
  /\ PureUnchanged /\ UNCHANGED <<nextId, initComments, overlapped>>

\* the comment is posted under the token's identity, github-actions[bot]
CreateComment(r) ==
  /\ runs[r].pc = "create"
  /\ \/ /\ comments' = Append(comments, [id |-> nextId, user |-> BOT_LOGIN, body |-> runs[r].comment.value])
        /\ nextId' = nextId + 1
        /\ runs' = [runs EXCEPT ![r] = [@ EXCEPT !.calls.create = @ + 1, !.pc = "final"]]
     \/ /\ PlatformUnchanged
        /\ runs' = [runs EXCEPT ![r] = caught([@ EXCEPT !.calls.create = @ + 1], "createComment")]
  /\ PureUnchanged /\ UNCHANGED <<initComments, overlapped>>

\* lines 61-63
Finish(r) ==
  /\ runs[r].pc = "final"
  /\ runs' = [runs EXCEPT ![r] = [@ EXCEPT !.pc = "done", !.failed = ~runs[r].results.doc.success]]
  /\ PlatformUnchanged /\ PureUnchanged /\ UNCHANGED <<initComments, overlapped>>

RunStep(r) ==
  \/ ExecJest(r) \/ ParseResults(r) \/ ChecksCreate(r) \/ CoverageStep(r)
  \/ ListComments(r) \/ DeleteComment(r) \/ CreateComment(r) \/ Finish(r)

InitRuns(cs) ==
  /\ comments = cs
  /\ initComments = cs
  /\ nextId = Len(cs) + 1
  /\ runs = [r \in Runs |-> IdleRun]
  /\ overlapped = FALSE
  /\ fnResults = BaseResult
  /\ fnOut = [payload |-> <<>>, table |-> <<>>, annotations |-> <<>>]

\* runs that may overlap, on a pull request with few comments
SmallLens == 0..MaxSpecial
Init == \E cs \in InitialComments(SmallLens) : InitRuns(cs)
Next == \E r \in Runs : Start(r) \/ RunStep(r)
Spec == Init /\ [][Next]_vars

\* runs in succession, on a pull request with few comments or with about a
\* page of them, up to MaxInitComments, the last one of any kind
LargeLens == (PER_PAGE - 1)..MaxInitComments
LargeComments == {CommentsOf(n, <<k>>) : n \in LargeLens, k \in CommentKinds}
InitSeq == \E cs \in InitialComments(SmallLens) \cup LargeComments : InitRuns(cs)
StartSeq(r) == (\A q \in Runs : ~active(q) /\ runs[q].pending = {}) /\ Start(r)
NextSeq == \E r \in Runs : StartSeq(r) \/ RunStep(r)
SpecSeq == InitSeq /\ [][NextSeq]_vars

(***************************************************************************)
(* The pure builders on their own: a document is drawn, each is applied    *)
(***************************************************************************)
CountValues == (0..MaxCount) \cup {10 + MaxCount}

\* total, passed and failed counts with passed + failed <= total
CountTriples ==
  { t \in CountValues \X CountValues \X CountValues : t[2] + t[3] <= t[1] }

CountDocs ==
  { [BaseResult EXCEPT !.success = ok,
       !.numTotalTests = t[1], !.numPassedTests = t[2], !.numFailedTests = t[3],
       !.numTotalTestSuites = u[1], !.numPassedTestSuites = u[2], !.numFailedTestSuites = u[3]] :
      ok \in BOOLEAN, t \in CountTriples, u \in CountTriples }

Present(v) == [present |-> TRUE, value |-> v]
Absent == [present |-> FALSE, value |-> <<>>]

AssertionVariants ==
  { [status |-> "passed", location |-> [present |-> TRUE, line |-> 3], failureMessages |-> Present(<<>>)],
    [status |-> "pending", location |-> [present |-> FALSE, line |-> 0], failureMessages |-> Present(<<>>)],
    [status |-> "failed", location |-> [present |-> TRUE, line |-> 7],
     failureMessages |-> Present(<< <<"ESC[31m", "expected 1", "ESC[39m">>, <<"at line 7">> >>)],
    [status |-> "failed", location |-> [present |-> FALSE, line |-> 0], failureMessages |-> Absent] }

AssertionAt(f, j, v) ==
  [ status |-> v.status,
    ancestorTitles |-> IF j % 2 = 1 THEN << <<"Auth">>, <<"login">> >> ELSE <<>>,
    title |-> <<"test ">> \o NumToStr(f) \o <<".">> \o NumToStr(j),
    location |-> v.location,
    failureMessages |-> v.failureMessages ]

FileMessage(f) ==
  IF f % 2 = 1 THEN <<"ESC[31m", "FAIL", "ESC[39m", " ">> \o FileName(f) \o <<"\n", " ">> ELSE <<>>

FileResultAt(f, vs) ==
  [ name |-> FileName(f),
    message |-> FileMessage(f),
    assertionResults |-> [j \in 1..Len(vs) |-> AssertionAt(f, j, vs[j])] ]

AssertionLists == UNION {[1..k -> AssertionVariants] : k \in 0..MaxAssertions}

TestDocs ==
  { [BaseResult EXCEPT !.success = ok, !.testResults = <<>>] : ok \in BOOLEAN }
  \cup { [BaseResult EXCEPT !.success = ok, !.testResults = <<FileResultAt(1, a)>>] :
           ok \in BOOLEAN, a \in AssertionLists }
  \cup { [BaseResult EXCEPT !.success = ok, !.testResults = <<FileResultAt(1, a), FileResultAt(2, b)>>] :
           ok \in BOOLEAN, a \in AssertionLists, b \in AssertionLists }

CoverageDocs ==
  { [BaseResult EXCEPT !.coverageMap = cov] : cov \in CoverageMaps(MaxEntries) \cup {NoCoverage} }

FnDocs == CountDocs \cup TestDocs \cup CoverageDocs

NoOut == [payload |-> <<>>, table |-> <<>>, annotations |-> <<>>]

CallGetCheckPayload ==
  /\ fnOut.payload = <<>>
  /\ fnOut' = [fnOut EXCEPT !.payload = <<getCheckPayload(fnResults, CWD)>>]
  /\ UNCHANGED <<comments, nextId, runs, initComments, overlapped, fnResults>>

CallGetCoverageTable ==
  /\ fnOut.table = <<>>
  /\ fnOut' = [fnOut EXCEPT !.table = <<getCoverageTable(fnResults, CWD)>>]
  /\ UNCHANGED <<comments, nextId, runs, initComments, overlapped, fnResults>>

CallGetAnnotations ==
  /\ fnOut.annotations = <<>>
  /\ fnOut' = [fnOut EXCEPT !.annotations = <<getAnnotations(fnResults, CWD)>>]
  /\ UNCHANGED <<comments, nextId, runs, initComments, overlapped, fnResults>>

InitFn ==
  /\ comments = <<>>
  /\ initComments = <<>>
  /\ nextId = 1
  /\ runs = [r \in Runs |-> IdleRun]
  /\ overlapped = FALSE
  /\ fnResults \in FnDocs
  /\ fnOut = NoOut

NextFn == CallGetCheckPayload \/ CallGetCoverageTable \/ CallGetAnnotations
SpecFn == InitFn /\ [][NextFn]_vars

(***************************************************************************)
(* Properties of the pure builders, under SpecFn                           *)
(***************************************************************************)
RECURSIVE splitLines(_)
splitLines(text) ==
  LET i == indexOf(text, <<"\n">>)
  IN IF i = 0 THEN <<text>>
     ELSE <<SubSeq(text, 1, i - 1)>> \o splitLines(SubSeq(text, i + 1, Len(text)))

tableComputed == fnOut.table # <<>>
tableOut == fnOut.table[1]
fnEntries == fnResults.coverageMap.entries
summarizable == SelectSeq(fnEntries, LAMBDA e : e.hasSummary)

relativeName(name) ==
  IF startsWith(name, CWD) THEN SubSeq(name, Len(CWD) + 1, Len(name)) ELSE name

expectedLine(e) ==
  <<"|", " ">> \o relativeName(e.filename)
    \o <<" ", "|", " ">> \o NumToStr(e.summary.statements) \o <<"%", " ", "|", " ">>
    \o NumToStr(e.summary.branches) \o <<"%", " ", "|", " ">>
    \o NumToStr(e.summary.functions) \o <<"%", " ", "|", " ">>
    \o NumToStr(e.summary.lines) \o <<"%", " ", "|">>

expectedHeaderLine ==
  <<"|", " ", "Filename", " ", "|", " ", "Statements", " ", "|", " ", "Branches", " ", "|",
    " ", "Functions", " ", "|", " ", "Lines", " ", "|">>

\* the header, then a table of one header row, the alignment line and one row
\* per summarizable entry, in the map's order
isTableOf(out, entries) ==
  /\ out.kind = "string"
  /\ startsWith(out.value, COVERAGE_HEADER)
  /\ LET lines == splitLines(SubSeq(out.value, Len(COVERAGE_HEADER) + 1, Len(out.value)))
     IN /\ Len(lines) = Len(entries) + 2
        /\ lines[1] = expectedHeaderLine
        /\ \A k \in 1..Len(entries) : lines[k + 2] = expectedLine(entries[k])

payloadComputed == fnOut.payload # <<>>

\* C8: on failure the summary is "Failed tests: <numFailedTests>/<numTotalTests>.
\* Failed suites: <numFailedTestSuites>/<numTotalTestSuites>."
C8_FailureSummary ==
  (payloadComputed /\ ~fnResults.success) =>
    fnOut.payload[1].output.summary =
      <<"Failed tests: ">> \o NumToStr(fnResults.numFailedTests) \o <<"/">>
        \o NumToStr(fnResults.numTotalTests) \o <<". Failed suites: ">>
        \o NumToStr(fnResults.numFailedTestSuites) \o <<"/">>
        \o NumToStr(fnResults.numTotalTestSuites) \o <<".">>

annotationsComputed == fnOut.annotations # <<>>
annotationsOut == fnOut.annotations[1]

\* the failed assertions, as <<file index, assertion index>>
failedPairs ==
  { p \in (1..Len(fnResults.testResults)) \X (1..MaxAssertions) :
      /\ p[2] <= Len(fnResults.testResults[p[1]].assertionResults)
      /\ fnResults.testResults[p[1]].assertionResults[p[2]].status = "failed" }

before(p, q) == p[1] < q[1] \/ (p[1] = q[1] /\ p[2] <= q[2])
rank(p) == Cardinality({q \in failedPairs : before(q, p)})

\* C9: no annotation on success; on failure one annotation per failed
\* assertion, none for another status, in file order and then assertion order,
\* with lines 0 when the assertion has no location
C9_Annotations ==
  annotationsComputed =>
    /\ fnResults.success => annotationsOut = <<>>
    /\ ~fnResults.success =>
         /\ Len(annotationsOut) = Cardinality(failedPairs)
         /\ \A p \in failedPairs :
              LET file == fnResults.testResults[p[1]]
                  a == file.assertionResults[p[2]]
                  ann == annotationsOut[rank(p)]
              IN /\ ann.title = join(a.ancestorTitles \o <<a.title>>, <<" > ">>)
                 /\ ann.path = relativeName(file.name)
                 /\ ann.annotation_level = "failure"
                 /\ ann.start_line = (IF a.location.present THEN a.location.line ELSE 0)
                 /\ ann.end_line = ann.start_line

C9_Witness ==
  /\ annotationsComputed
  /\ ~fnResults.success
  /\ Len(annotationsOut) = 2
  /\ annotationsOut[1].start_line = 0
  /\ annotationsOut[2].start_line > 0
  /\ \E p \in failedPairs : p[1] = 1
  /\ \E p \in failedPairs : p[1] = 2
  /\ \E i \in 1..Len(fnResults.testResults) :
       \E j \in 1..Len(fnResults.testResults[i].assertionResults) :
         fnResults.testResults[i].assertionResults[j].status = "pending"

(***************************************************************************)
(* Properties of run() and of the reconciliation, under Spec and SpecSeq   *)
(***************************************************************************)
\* a coverage comment: written by the automation identity, starting with the header
isCoverageComment(c) == c.user = BOT_LOGIN /\ startsWith(c.body, COVERAGE_HEADER)
numCoverage(cs) == Cardinality({i \in 1..Len(cs) : isCoverageComment(cs[i])})

done(r) == runs[r].pc = "done"
listed(r) == runs[r].calls.list = 1 /\ runs[r].error # "listComments"
PlatformErrors == {"checks.create", "listComments", "deleteComment", "createComment"}
smallPullRequest == Len(initComments) <= PER_PAGE
noPlatformCall(r) ==
  /\ runs[r].calls = [exec |-> 0, check |-> 0, list |-> 0, create |-> 0]
  /\ runs[r].deleteCalls = {}

\* C1: from at most one coverage comment and at most 100 comments, every
\* state holds at most one coverage comment, also when two runs overlap
C1_AtMostOne ==
  (smallPullRequest /\ numCoverage(initComments) <= 1) => numCoverage(comments) <= 1

\* the run was given a token and valid toggles, the comment is enabled, the
\* table is not empty and no call failed
reconciled(r) ==
  /\ done(r)
  /\ runs[r].error = "none"
  /\ runs[r].token
  /\ shouldCommentCoverage(runs[r].toggle)
  /\ truthy(runs[r].comment)

keptOthers ==
  \A i \in 1..Len(initComments) :
    ~isCoverageComment(initComments[i]) => \E j \in 1..Len(comments) : comments[j] = initComments[i]

\* C2 as claimed: from at most 100 comments, after two runs in succession
\* exactly one coverage comment is left and every other comment is kept
C2_IdempotentAsClaimed ==
  (smallPullRequest /\ \A r \in Runs : reconciled(r)) =>
    (numCoverage(comments) = 1 /\ keptOthers)

\* the comments the second run finds: those kept, and the first run's comment
fitsOnePageTwice ==
  smallPullRequest /\ Len(initComments) - numCoverage(initComments) + 1 <= PER_PAGE

\* C2 amended: the same, when also the second run finds at most 100 comments
C2_Idempotent ==
  (fitsOnePageTwice /\ \A r \in Runs : reconciled(r)) =>
    (numCoverage(comments) = 1 /\ keptOthers)

C2_Witness ==
  /\ \A r \in Runs : reconciled(r)
  /\ Len(initComments) = PER_PAGE
  /\ numCoverage(initComments) >= 1
  /\ fitsOnePageTwice
  /\ numCoverage(comments) = 1
  /\ comments[Len(comments)].id = PER_PAGE + 2

\* C3: a run calls createComment only after listComments returned and every
\* deleteComment it dispatched has completed, and the comments it deleted are gone
C3_DeleteBeforePost ==
  \A r \in Runs :
    (runs[r].pc = "create" \/ runs[r].calls.create > 0) =>
      /\ listed(r)
      /\ runs[r].pending = {}
      /\ runs[r].deleteCalls \cap ids(comments) = {}

C3_Witness ==
  \E r \in Runs :
    /\ runs[r].calls.create = 1
    /\ Cardinality(runs[r].deleteCalls) >= 2

\* C4: a listed comment is deleted exactly when the bot wrote it and its body
\* starts with the header; nothing outside the listing is deleted, and a
\* comment missing either mark is never removed
C4_Ownership ==
  /\ \A r \in Runs :
       /\ runs[r].deleteCalls \subseteq ids(runs[r].listed)
       /\ listed(r) =>
            \A i \in 1..Len(runs[r].listed) :
              runs[r].listed[i].id \in runs[r].deleteCalls
                <=> (runs[r].listed[i].user = BOT_LOGIN
                     /\ startsWith(runs[r].listed[i].body, COVERAGE_HEADER))
  /\ keptOthers

C4_Witness ==
  \E r \in Runs :
    /\ done(r)
    /\ Len(runs[r].listed) = 2
    /\ Cardinality(runs[r].deleteCalls) = 1
    /\ runs[r].pending = {}
    /\ \E i \in 1..2 : runs[r].listed[i].user = BOT_LOGIN /\ runs[r].listed[i].body = QuotedBody
    /\ Len(comments) >= 1 /\ comments[1].body = QuotedBody

\* the run passed line 50 and did not enter the comment step
degraded(r) ==
  /\ runs[r].pc \in {"final", "done"}
  /\ runs[r].error = "none"
  /\ runs[r].results.present
  /\ \/ ~shouldCommentCoverage(runs[r].toggle)
     \/ ~truthy(getCoverageTable(runs[r].results.doc, CWD))

\* C5: a run whose toggle is off or whose table is false or empty calls none
\* of listComments, deleteComment and createComment, leaves the comments as
\* they were, and sends its check once
C5_DontClobber ==
  \A r \in Runs :
    degraded(r) =>
      /\ runs[r].calls.list = 0
      /\ runs[r].calls.create = 0
      /\ runs[r].deleteCalls = {}
      /\ runs[r].calls.check = 1
      /\ Len(runs[r].checkPayloads) = 1
      /\ (\A q \in Runs \ {r} : runs[q].pc = "idle") => comments = initComments

C5_Witness ==
  \E r \in Runs :
    /\ done(r) /\ degraded(r)
    /\ shouldCommentCoverage(runs[r].toggle)
    /\ runs[r].comment = FalseVal
    /\ numCoverage(comments) = 1
    /\ \A q \in Runs \ {r} : runs[q].pc = "idle"

failedTests(r) == runs[r].results.present /\ ~runs[r].results.doc.success

\* C6 as claimed: a finished run is marked failed exactly when the token is
\* missing, or parsing or a platform call raised an error, or success is false
C6_ExitAsClaimed ==
  \A r \in Runs :
    done(r) =>
      (runs[r].failed <=>
         (~runs[r].token \/ runs[r].error \in PlatformErrors \cup {"parse"} \/ failedTests(r)))

\* C6 amended: a finished run is marked failed exactly when the token is
\* missing, or reading a toggle, parsing or a platform call raised an error,
\* or success is false; a missing token or a toggle error fails the run
\* before any call; a failure of the test command alone does not fail it
C6_Exit ==
  \A r \in Runs :
    done(r) =>
      /\ runs[r].failed <=>
           (~runs[r].token \/ runs[r].error \in PlatformErrors \cup {"parse", "config"}
              \/ failedTests(r))
      /\ ~runs[r].token => (runs[r].failed /\ noPlatformCall(r))
      /\ failedTests(r) => runs[r].failed
      /\ runs[r].error = "config" => noPlatformCall(r)

C6_Witness ==
  \E r \in Runs :
    /\ done(r)
    /\ runs[r].execFailed
    /\ ~runs[r].failed
    /\ runs[r].calls.create = 1
    /\ \E q \in Runs : done(q) /\ runs[q].failed /\ failedTests(q) /\ runs[q].error = "none"
                       /\ runs[q].calls.create = 0

\* C10: while a deleteComment of its batch is outstanding the run takes no
\* later step; a failed deletion fails the run and no comment is posted
C10_Barrier ==
  \A r \in Runs :
    /\ runs[r].pending # {} => runs[r].pc = "deleting"
    /\ runs[r].error = "deleteComment" => (runs[r].failed /\ runs[r].calls.create = 0)

====
